---- MODULE Spec2Model ----
(***************************************************************************)
(* DeployPodToKube.svelte: the form that deploys a generated Pod manifest  *)
(* to a Kubernetes cluster.  The component's script is modelled as a state *)
(* machine: the component variables are the state, every await of the      *)
(* script is a suspension point, and every handler (mount continuation,    *)
(* form control, deployToKube continuation, interval tick, status read)    *)
(* is one action.                                                          *)
(***************************************************************************)
EXTENDS Integers, Sequences, FiniteSets, TLC

(***************************************************************************)
(* Bounds of the model.                                                    *)
(***************************************************************************)
\* status reads (updatePod invocations awaiting kubernetesReadNamespacedPod)
\* that may be in flight at the same time
MaxInFlight == 2
\* containers of a manifest drawn for the planner specification
MaxContainers == 2
\* ports of one container of a manifest drawn for the planner specification
MaxPorts == 1
\* edits the user makes to the controls of the form in one life of the component
MaxEdits == 2

(***************************************************************************)
(* Values.  A JavaScript `undefined` is the string Undefined where the     *)
(* other values are strings, and the number 0 (falsy as well) where the    *)
(* other values are port numbers.                                          *)
(***************************************************************************)
Undefined == "undefined"
NoPod == [undefined |-> TRUE]

\* hostPort of a port entry: NoHostPort stands for an absent hostPort
NoHostPort == 0
\* JavaScript truthiness of port.hostPort / ingressPort (lines 185, 257)
TruthyPort(p) == p # NoHostPort
\* JavaScript truthiness of a string-or-undefined (lines 68, 74, 176)
TruthyStr(s) == s # Undefined /\ s # ""

\* the port entries manifests are built from: hostPort, containerPort, protocol
PortCatalogue ==
  { [hostPort |-> 8080, containerPort |-> 80, protocol |-> Undefined],
    [hostPort |-> 9090, containerPort |-> 90, protocol |-> "UDP"],
    [hostPort |-> NoHostPort, containerPort |-> 53, protocol |-> "UDP"] }

SeqsUpTo(S, n) == UNION { [1..k -> S] : k \in 0..n }

Container(ports, mounts) ==
  [ports |-> ports, volumeMounts |-> mounts, imagePullPolicy |-> Undefined]

Pod(name, labels, app, volumes, containers) ==
  [name |-> name, labels |-> labels, app |-> app, volumes |-> volumes,
   creationTimestamp |-> "string", restricted |-> FALSE,
   containers |-> containers]

p8080 == [hostPort |-> 8080, containerPort |-> 80, protocol |-> Undefined]
p9090 == [hostPort |-> 9090, containerPort |-> 90, protocol |-> "UDP"]
p53 == [hostPort |-> NoHostPort, containerPort |-> 53, protocol |-> "UDP"]

\* what generatePodmanKube may return for the resource (parsed by jsYaml.load)
GeneratedManifests ==
  { Pod("web", TRUE, "web", TRUE, << Container(<<p8080>>, TRUE) >>),
    Pod("web", TRUE, "gen", TRUE,
        << Container(<<p8080>>, TRUE), Container(<<p53, p9090>>, FALSE) >>),
    Pod("web", FALSE, Undefined, FALSE, << Container(<<p53>>, FALSE) >>) }

\* the manifests the planner specification draws from
PlanManifests ==
  { Pod("web", TRUE, "web", TRUE, cs) :
      cs \in { s \in SeqsUpTo({ Container(ps, TRUE) : ps \in SeqsUpTo(PortCatalogue, MaxPorts) },
                              MaxContainers) : Len(s) >= 1 } }

\* what kubernetesGetCurrentNamespace may answer: the kube config names no
\* namespace
CurrentNamespaceAnswers == {Undefined}
\* what the pod name input may be set to
PodNames == {"web", "api", ""}
\* the namespaces of the cluster
Namespaces == {"default", "dev"}

(***************************************************************************)
(* Pure parts of deployToKube.                                             *)
(***************************************************************************)
\* `${bodyPod.metadata?.name}-${port.hostPort}` (lines 184, 216, 225)
PortName(name, hostPort) == <<name, "-", hostPort>>

\* ProtocolOf without the default: the protocol as the port gives it
ProtocolAsGiven(port) == port.protocol

\* port.protocol ?? 'TCP' (line 199)
ProtocolOf(port) == IF port.protocol = Undefined THEN "TCP" ELSE port.protocol

\* the service object of lines 187-207
Service(pod, port, ns) ==
  [kind |-> "Service",
   name |-> PortName(pod.name, port.hostPort),
   namespace |-> ns,
   portName |-> PortName(pod.name, port.hostPort),
   port |-> port.hostPort,
   protocol |-> ProtocolOf(port),
   targetPort |-> port.containerPort,
   selectorApp |-> pod.name]

\* the route object of lines 212-231
Route(pod, port, ns) ==
  [kind |-> "Route",
   name |-> PortName(pod.name, port.hostPort),
   namespace |-> ns,
   targetPort |-> port.containerPort,
   toKind |-> "Service",
   toName |-> PortName(pod.name, port.hostPort),
   tls |-> "edge"]

\* the ingress object of lines 272-289
Ingress(pod, ns, serviceName, servicePort) ==
  [kind |-> "Ingress",
   name |-> pod.name,
   namespace |-> ns,
   serviceName |-> serviceName,
   servicePort |-> servicePort]

\* RoutePlanned without the test of openshiftRouteGroupSupported
RoutePlannedAlways(openshift, useRoutes) == useRoutes

\* whether a route is pushed along with a service (line 210)
RoutePlanned(openshift, useRoutes) == openshift /\ useRoutes

\* container?.ports?.forEach of lines 183-235: acc is <<services, routes>>
RECURSIVE PlanPorts(_, _, _, _, _, _)
PlanPorts(pod, ports, ns, openshift, useRoutes, acc) ==
  IF ports = <<>> THEN acc
  ELSE LET port == Head(ports)
           next ==
             IF TruthyPort(port.hostPort)
             THEN << Append(acc[1], Service(pod, port, ns)),
                     IF RoutePlanned(openshift, useRoutes)
                     THEN Append(acc[2], Route(pod, port, ns))
                     ELSE acc[2] >>
             ELSE acc
       IN PlanPorts(pod, Tail(ports), ns, openshift, useRoutes, next)

\* bodyPod.spec?.containers?.forEach of lines 181-236
RECURSIVE PlanContainers(_, _, _, _, _, _)
PlanContainers(pod, containers, ns, openshift, useRoutes, acc) ==
  IF containers = <<>> THEN acc
  ELSE PlanContainers(pod, Tail(containers), ns, openshift, useRoutes,
                      PlanPorts(pod, Head(containers).ports, ns, openshift, useRoutes, acc))

\* lines 170-237: servicesToCreate and routesToCreate after the planning loop
PlanServices(pod, ns, useServices, openshift, useRoutes) ==
  IF useServices
  THEN PlanContainers(pod, pod.containers, ns, openshift, useRoutes, << <<>>, <<>> >>)
  ELSE << <<>>, <<>> >>

\* servicesToCreate.find(service => service.spec.ports[0].port === ingressPort)
\* (line 262): the index of the first match, 0 when there is none
RECURSIVE FindService(_, _, _)
FindService(services, port, i) ==
  IF i > Len(services) THEN 0
  ELSE IF services[i].port = port THEN i
  ELSE FindService(services, port, i + 1)

WarnNoService == "In order to create an Ingress a Pod must have a Service associated to a port mapping."
WarnNoPort == "You need to specify a port to create an ingress."
ErrNoMatch == "Unable to find the service that matches the port you want to expose."

\* PlanIngress without the branch of line 251: a single service is a target
\* only if its port is the selected one
PlanIngressNoAuto(pod, ns, services, wantIngress, port) ==
  IF ~wantIngress THEN [kind |-> "none", text |-> "", ingresses |-> <<>>]
  ELSE IF Len(services) = 0
    THEN [kind |-> "warning", text |-> WarnNoService, ingresses |-> <<>>]
  ELSE IF ~TruthyPort(port)
    THEN [kind |-> "warning", text |-> WarnNoPort, ingresses |-> <<>>]
  ELSE LET m == FindService(services, port, 1) IN
    IF m # 0
    THEN [kind |-> "ingress", text |-> "",
          ingresses |-> << Ingress(pod, ns, services[m].name, services[m].port) >>]
    ELSE [kind |-> "error", text |-> ErrNoMatch, ingresses |-> <<>>]

\* lines 240-293: the outcome of the ingress block.
\* kind is "none" (no ingress asked), "warning", "error" or "ingress"
PlanIngress(pod, ns, services, wantIngress, port) ==
  IF ~wantIngress THEN [kind |-> "none", text |-> "", ingresses |-> <<>>]
  ELSE IF Len(services) = 0
    THEN [kind |-> "warning", text |-> WarnNoService, ingresses |-> <<>>]
  ELSE IF Len(services) = 1
    THEN [kind |-> "ingress", text |-> "",
          ingresses |-> << Ingress(pod, ns, services[1].name, services[1].port) >>]
  ELSE IF ~TruthyPort(port)
    THEN [kind |-> "warning", text |-> WarnNoPort, ingresses |-> <<>>]
  ELSE LET m == FindService(services, port, 1) IN
    IF m # 0
    THEN [kind |-> "ingress", text |-> "",
          ingresses |-> << Ingress(pod, ns, services[m].name, services[m].port) >>]
    ELSE [kind |-> "error", text |-> ErrNoMatch, ingresses |-> <<>>]

\* StripHostPorts with the hostPorts left in place
StripNothing(ports) == ports

\* container.ports.forEach(port => delete port.hostPort) (lines 330-335)
StripHostPorts(ports) ==
  [i \in 1..Len(ports) |-> [ports[i] EXCEPT !.hostPort = NoHostPort]]

\* lines 321-336: one container with volumeMounts and hostPorts deleted
SanitizeContainer(c) ==
  [c EXCEPT !.volumeMounts = FALSE, !.ports = StripHostPorts(c.ports)]

\* ensureRestrictedSecurityContext(bodyPod) of pod-utils (line 340)
EnsureRestrictedSecurityContext(pod) == [pod EXCEPT !.restricted = TRUE]

\* lines 315-341: the in-place sanitization of bodyPod
Sanitize(pod, useServices, useRestricted) ==
  LET noVolumes == [pod EXCEPT !.volumes = FALSE]
      stripped ==
        IF useServices
        THEN [noVolumes EXCEPT !.containers =
                [i \in 1..Len(pod.containers) |-> SanitizeContainer(pod.containers[i])]]
        ELSE noVolumes
  IN IF useRestricted THEN EnsureRestrictedSecurityContext(stripped) ELSE stripped

\* LabelSync that never runs: the label stays as generated
LabelSyncNever(pod) == pod

\* the reactive block of lines 385-389
LabelSync(pod) ==
  IF pod.labels
  THEN [pod EXCEPT !.app = IF pod.name = Undefined THEN "" ELSE pod.name]
  ELSE pod

\* new Date(bodyPod.metadata.creationTimestamp) (lines 296-298)
DateTimestamp(pod) ==
  IF pod.creationTimestamp # Undefined
  THEN [pod EXCEPT !.creationTimestamp = "Date"]
  ELSE pod

(***************************************************************************)
(* State.                                                                  *)
(***************************************************************************)
VARIABLES
  \* component variables (lines 21-44)
  bodyPod, currentNamespace, allNamespaces,
  deployStarted, deployFinished, deployError, deployWarning,
  updatePodInterval, openshiftRouteGroupSupported,
  deployUsingServices, deployUsingRoutes, deployUsingRestrictedSecurityContext,
  createdPod, createIngress, ingressPort, containerPortArray, createdRoutes,
  \* position of the onMount callback and of the component's life
  mountPc, destroyed,
  \* the deployToKube invocation: its position and its locals
  pc, idx, servicesToCreate, routesToCreate, ingressesToCreate,
  previousPod, eventProperties, error,
  \* updatePod invocations awaiting kubernetesReadNamespacedPod
  reads,
  \* observation of the run: the create calls and telemetry events of the
  \* latest attempt, bodyPod as it was before that attempt sanitized it,
  \* and the number of deployToKube invocations suspended at an await
  calls, telemetry, snapshot, inFlight,
  \* the number of edits the user made to the form
  edits

formVars ==
  << deployUsingServices, deployUsingRoutes, deployUsingRestrictedSecurityContext,
     createIngress, ingressPort, currentNamespace >>
mountVars == << mountPc, allNamespaces, openshiftRouteGroupSupported, containerPortArray >>
localVars ==
  << pc, idx, servicesToCreate, routesToCreate, ingressesToCreate,
     previousPod, eventProperties, error >>
outcomeVars ==
  << deployStarted, deployFinished, deployError, deployWarning, createdPod, createdRoutes >>
observed == << calls, telemetry, snapshot, inFlight >>

vars ==
  << bodyPod, formVars, mountVars, localVars, outcomeVars, observed,
     updatePodInterval, destroyed, reads, edits >>

NoProperties == [undefined |-> TRUE]

\* lines 21-44 and the locals of a deployToKube that has not run
Init ==
  /\ bodyPod = NoPod
  /\ currentNamespace = Undefined
  /\ allNamespaces = FALSE
  /\ deployStarted = FALSE
  /\ deployFinished = FALSE
  /\ deployError = ""
  /\ deployWarning = ""
  /\ updatePodInterval = "unset"
  /\ openshiftRouteGroupSupported = FALSE
  /\ deployUsingServices = TRUE
  /\ deployUsingRoutes = TRUE
  /\ deployUsingRestrictedSecurityContext = FALSE
  /\ createdPod = NoPod
  /\ createIngress = FALSE
  /\ ingressPort = NoHostPort
  /\ containerPortArray = <<>>
  /\ createdRoutes = <<>>
  /\ mountPc = "generate"
  /\ destroyed = FALSE
  /\ pc = "idle"
  /\ idx = 0
  /\ servicesToCreate = <<>>
  /\ routesToCreate = <<>>
  /\ ingressesToCreate = <<>>
  /\ previousPod = NoPod
  /\ eventProperties = NoProperties
  /\ error = ""
  /\ reads = <<>>
  /\ calls = <<>>
  /\ telemetry = <<>>
  /\ snapshot = NoPod
  /\ inFlight = 0
  /\ edits = 0

(***************************************************************************)
(* In-place mutation of the manifest object.  previousPod (line 310) is a  *)
(* second reference to the object bodyPod refers to, so while an attempt   *)
(* holds it, it shows every mutation made through bodyPod.                 *)
(***************************************************************************)
MutateBody(new) ==
  /\ bodyPod' = new
  /\ previousPod' = IF previousPod = NoPod THEN NoPod ELSE new

(***************************************************************************)
(* onMount (lines 46-107): one action per await that changes the state.    *)
(***************************************************************************)
\* lines 50-62: the generated manifest is parsed into bodyPod; the reactive
\* block of line 385 runs on the assignment
MountGenerate ==
  /\ mountPc = "generate"
  /\ \E m \in GeneratedManifests : bodyPod' = LabelSync(m)
  /\ mountPc' = "namespace"
  /\ UNCHANGED << formVars, allNamespaces, openshiftRouteGroupSupported, containerPortArray,
                  localVars, outcomeVars, observed, updatePodInterval, destroyed, edits, reads >>

\* lines 65-80: kubernetesGetCurrentNamespace answers
MountNamespace ==
  /\ mountPc = "namespace"
  /\ \E grabCurrentNamespace \in CurrentNamespaceAnswers :
       currentNamespace' = IF ~TruthyStr(grabCurrentNamespace) THEN "default"
                           ELSE grabCurrentNamespace
  /\ mountPc' = "listNamespaces"
  /\ UNCHANGED << bodyPod, deployUsingServices, deployUsingRoutes,
                  deployUsingRestrictedSecurityContext, createIngress, ingressPort,
                  allNamespaces, openshiftRouteGroupSupported, containerPortArray,
                  localVars, outcomeVars, observed, updatePodInterval, destroyed, edits, reads >>

\* lines 79-87: kubernetesListNamespaces answers or fails
MountListNamespaces ==
  /\ mountPc = "listNamespaces"
  /\ \E listed \in BOOLEAN : allNamespaces' = listed
  /\ mountPc' = "apiGroup"
  /\ UNCHANGED << bodyPod, formVars, openshiftRouteGroupSupported, containerPortArray,
                  localVars, outcomeVars, observed, updatePodInterval, destroyed, edits, reads >>

\* hostPort of every port of every container, in order (lines 100-104)
RECURSIVE HostPorts(_)
HostPorts(containers) ==
  IF containers = <<>> THEN <<>>
  ELSE [i \in 1..Len(Head(containers).ports) |-> Head(containers).ports[i].hostPort]
       \o HostPorts(Tail(containers))

\* lines 98-106: the end of onMount
MountFinish ==
  /\ containerPortArray' = containerPortArray \o HostPorts(bodyPod.containers)
  /\ MutateBody([bodyPod EXCEPT !.containers =
       [i \in 1..Len(bodyPod.containers) |->
          [bodyPod.containers[i] EXCEPT !.imagePullPolicy = "IfNotPresent"]]])
  /\ mountPc' = "done"

\* lines 87-88: kubernetesIsAPIGroupSupported answers
MountApiGroup ==
  /\ mountPc = "apiGroup"
  /\ \E supported \in BOOLEAN : openshiftRouteGroupSupported' = supported
  /\ mountPc' = "configMap"
  /\ UNCHANGED << bodyPod, formVars, allNamespaces, containerPortArray,
                  localVars, outcomeVars, observed, updatePodInterval, destroyed, edits, reads >>

\* lines 87, 93-106: kubernetesIsAPIGroupSupported throws
MountApiGroupThrows ==
  /\ mountPc = "apiGroup"
  /\ MountFinish
  /\ UNCHANGED << formVars, allNamespaces, openshiftRouteGroupSupported,
                  pc, idx, servicesToCreate, routesToCreate, ingressesToCreate,
                  eventProperties, error,
                  outcomeVars, observed, updatePodInterval, destroyed, edits, reads >>

\* lines 88-106: kubernetesReadNamespacedConfigMap answers or throws
MountConfigMap ==
  /\ mountPc = "configMap"
  /\ MountFinish
  /\ UNCHANGED << formVars, allNamespaces, openshiftRouteGroupSupported,
                  pc, idx, servicesToCreate, routesToCreate, ingressesToCreate,
                  eventProperties, error,
                  outcomeVars, observed, updatePodInterval, destroyed, edits, reads >>

(***************************************************************************)
(* The form controls (lines 412-544); none is rendered after onDestroy.    *)
(***************************************************************************)
\* the user edits one control of the form
Edit == edits < MaxEdits /\ edits' = edits + 1

\* bind:value={bodyPod.metadata.name} (lines 412-424) and the reactive block
SetPodName(n) ==
  /\ ~destroyed
  /\ Edit
  /\ bodyPod # NoPod
  /\ n # bodyPod.name
  /\ MutateBody(LabelSync([bodyPod EXCEPT !.name = n]))
  /\ UNCHANGED << formVars, mountVars, pc, idx, servicesToCreate, routesToCreate,
                  ingressesToCreate, eventProperties, error,
                  outcomeVars, observed, updatePodInterval, destroyed, reads >>

\* bind:checked={deployUsingServices} (lines 429-437)
ToggleUseServices ==
  /\ ~destroyed
  /\ Edit
  /\ deployUsingServices' = ~deployUsingServices
  /\ UNCHANGED << bodyPod, deployUsingRoutes, deployUsingRestrictedSecurityContext,
                  createIngress, ingressPort, currentNamespace,
                  mountVars, localVars, outcomeVars, observed,
                  updatePodInterval, destroyed, reads >>

\* bind:checked={deployUsingRestrictedSecurityContext} (lines 443-454)
ToggleRestricted ==
  /\ ~destroyed
  /\ Edit
  /\ deployUsingRestrictedSecurityContext' = ~deployUsingRestrictedSecurityContext
  /\ UNCHANGED << bodyPod, deployUsingServices, deployUsingRoutes,
                  createIngress, ingressPort, currentNamespace,
                  mountVars, localVars, outcomeVars, observed,
                  updatePodInterval, destroyed, reads >>

\* bind:checked={createIngress}, rendered under the #if of line 458
ToggleCreateIngress ==
  /\ ~destroyed
  /\ Edit
  /\ ~openshiftRouteGroupSupported /\ deployUsingServices
  /\ createIngress' = ~createIngress
  /\ UNCHANGED << bodyPod, deployUsingServices, deployUsingRoutes,
                  deployUsingRestrictedSecurityContext, ingressPort, currentNamespace,
                  mountVars, localVars, outcomeVars, observed,
                  updatePodInterval, destroyed, reads >>

\* bind:value={ingressPort}, rendered under the #if of line 475; the options
\* are the entries of containerPortArray
SelectIngressPort(i) ==
  /\ ~destroyed
  /\ Edit
  /\ createIngress /\ Len(containerPortArray) > 1
  /\ i \in 1..Len(containerPortArray)
  /\ ingressPort # containerPortArray[i]
  /\ ingressPort' = containerPortArray[i]
  /\ UNCHANGED << bodyPod, deployUsingServices, deployUsingRoutes,
                  deployUsingRestrictedSecurityContext, createIngress, currentNamespace,
                  mountVars, localVars, outcomeVars, observed,
                  updatePodInterval, destroyed, reads >>

\* bind:checked={deployUsingRoutes}, rendered under the #if of line 498
ToggleUseRoutes ==
  /\ ~destroyed
  /\ Edit
  /\ openshiftRouteGroupSupported
  /\ deployUsingRoutes' = ~deployUsingRoutes
  /\ UNCHANGED << bodyPod, deployUsingServices, deployUsingRestrictedSecurityContext,
                  createIngress, ingressPort, currentNamespace,
                  mountVars, localVars, outcomeVars, observed,
                  updatePodInterval, destroyed, reads >>

\* bind:value={currentNamespace}, rendered under the #if of line 528
SelectNamespace(n) ==
  /\ ~destroyed
  /\ Edit
  /\ allNamespaces
  /\ n # currentNamespace
  /\ currentNamespace' = n
  /\ UNCHANGED << bodyPod, deployUsingServices, deployUsingRoutes,
                  deployUsingRestrictedSecurityContext, createIngress, ingressPort,
                  mountVars, localVars, outcomeVars, observed,
                  updatePodInterval, destroyed, reads >>

\* clearInterval(updatePodInterval) (lines 125, 136, 166)
ClearInterval(handle) == IF handle = "active" THEN "cleared" ELSE handle

\* onDestroy (lines 134-137)
OnDestroy ==
  /\ ~destroyed
  /\ destroyed' = TRUE
  /\ updatePodInterval' = ClearInterval(updatePodInterval)
  /\ UNCHANGED << bodyPod, formVars, mountVars, localVars, outcomeVars, observed, reads, edits >>

(***************************************************************************)
(* deployToKube (lines 159-381).                                           *)
(***************************************************************************)
\* DeployAvailable without the #if of line 553: the button is always rendered
\* ResetCreatedPod without line 164: the Pod of the attempt before stays
KeepCreatedPod(pod) == pod

\* createdPod = undefined (line 164)
ResetCreatedPod(pod) == NoPod

DeployAlwaysRendered == ~(bodyPod # NoPod /\ bodyPod.name = "")

\* the Deploy button: rendered under {#if !deployStarted} (line 553) and
\* disabled when the pod name is the empty string (line 560)
DeployAvailable ==
  /\ ~deployStarted
  /\ ~(bodyPod # NoPod /\ bodyPod.name = "")

\* SyncOutcome without the returns of lines 250 and 260
SyncOutcomeIgnoresWarning(ing) ==
  IF bodyPod = NoPod THEN "throw"
  ELSE IF ~TruthyStr(bodyPod.name) THEN "skip"
  ELSE IF ing.kind = "error" THEN "error"
  ELSE "submit"

\* how the synchronous part of deployToKube ends:
\*   "throw"   bodyPod is undefined, line 176 throws a TypeError
\*   "skip"    the pod name is falsy, the body of the if of line 176 is skipped
\*   "warning" return of line 250 or 260
\*   "error"   return of line 268
\*   "submit"  kubernetesCreatePod is called (line 344)
SyncOutcome(ing) ==
  IF bodyPod = NoPod THEN "throw"
  ELSE IF ~TruthyStr(bodyPod.name) THEN "skip"
  ELSE IF ing.kind \in {"warning", "error"} THEN ing.kind
  ELSE "submit"

\* a create call as the collaborator receives it
Call(kind, ns, body) == [kind |-> kind, namespace |-> ns, body |-> body, status |-> "pending"]

\* the call log with its latest call answered
Answered(log, status) == [log EXCEPT ![Len(log)].status = status]

\* lines 159-344: from the click to the first await
DeployToKube ==
  /\ ~destroyed
  /\ DeployAvailable
  /\ LET sr == PlanServices(bodyPod, currentNamespace, deployUsingServices,
                            openshiftRouteGroupSupported, deployUsingRoutes)
         ing == PlanIngress(bodyPod, currentNamespace, sr[1], createIngress, ingressPort)
         outcome == SyncOutcome(ing)
         planned == outcome \in {"warning", "error", "submit"}
         dated == DateTimestamp(bodyPod)
         sanitized == Sanitize(dated, deployUsingServices,
                               deployUsingRestrictedSecurityContext)
     IN /\ deployFinished' = FALSE
        /\ createdPod' = ResetCreatedPod(createdPod)
        /\ updatePodInterval' = ClearInterval(updatePodInterval)
        /\ createdRoutes' = <<>>
        /\ deployStarted' = (outcome # "warning")
        /\ deployWarning' = IF outcome = "warning" THEN ing.text ELSE ""
        /\ deployError' = IF outcome = "error" THEN ing.text ELSE ""
        /\ servicesToCreate' = IF planned THEN sr[1] ELSE <<>>
        /\ routesToCreate' = IF planned THEN sr[2] ELSE <<>>
        /\ ingressesToCreate' = IF planned THEN ing.ingresses ELSE <<>>
        /\ idx' = 0
        /\ error' = ""
        /\ telemetry' = <<>>
        /\ IF outcome = "submit"
           THEN /\ eventProperties' =
                     [useServices |-> deployUsingServices,
                      useRoutes |-> deployUsingRoutes,
                      createIngress |-> createIngress,
                      isOpenshift |-> openshiftRouteGroupSupported]
                \* previousPod = bodyPod (line 310) copies the reference, and
                \* lines 315-341 then change the one object both refer to
                /\ bodyPod' = sanitized
                /\ previousPod' = sanitized
                /\ snapshot' = dated
                /\ calls' = << Call("Pod", currentNamespace, sanitized) >>
                /\ pc' = "pod"
                /\ inFlight' = inFlight + 1
           ELSE /\ eventProperties' = NoProperties
                /\ previousPod' = NoPod
                /\ snapshot' = bodyPod
                /\ calls' = <<>>
                /\ UNCHANGED << bodyPod, pc, inFlight >>
  /\ UNCHANGED << formVars, mountVars, destroyed, edits, reads >>

\* the statement the try block reaches after the i-th call of a loop
\* (lines 346-363): the next call of the loops, in their order
AfterIngresses(i) ==
  IF i < Len(ingressesToCreate) THEN [pc |-> "ingress", idx |-> i + 1]
  ELSE [pc |-> "telemetry", idx |-> 0]

AfterRoutes(i) ==
  IF i < Len(routesToCreate) THEN [pc |-> "route", idx |-> i + 1]
  ELSE AfterIngresses(0)

\* AfterServices with a loop that stops one service early
AfterServicesStopsEarly(i) ==
  IF i + 1 < Len(servicesToCreate) THEN [pc |-> "service", idx |-> i + 1]
  ELSE AfterRoutes(0)

AfterServices(i) ==
  IF i < Len(servicesToCreate) THEN [pc |-> "service", idx |-> i + 1]
  ELSE AfterRoutes(0)

\* the collaborator creates nothing without a namespace
Creatable(call) == call.namespace # Undefined

\* the try block moves on to `step`: the call of that step is made with the
\* namespace selected at that moment (lines 348, 353, 359, 363)
Continue(step) ==
  /\ pc' = step.pc
  /\ idx' = step.idx
  /\ calls' =
       LET done == Answered(calls, "ok") IN
       CASE step.pc = "service" ->
              Append(done, Call("Service", currentNamespace, servicesToCreate[step.idx]))
         [] step.pc = "route" ->
              Append(done, Call("Route", currentNamespace, routesToCreate[step.idx]))
         [] step.pc = "ingress" ->
              Append(done, Call("Ingress", currentNamespace, ingressesToCreate[step.idx]))
         [] OTHER -> done
  /\ telemetry' =
       IF step.pc = "telemetry"
       THEN Append(telemetry, [name |-> "deployToKube", properties |-> eventProperties,
                               errorMessage |-> Undefined])
       ELSE telemetry

\* line 344: kubernetesCreatePod answers with the created pod
CreatePodReturns ==
  /\ pc = "pod"
  /\ Creatable(calls[Len(calls)])
  /\ createdPod' = [name |-> calls[Len(calls)].body.name,
                    namespace |-> calls[Len(calls)].namespace,
                    phase |-> "Pending"]
  /\ Continue(AfterServices(0))
  /\ UNCHANGED << bodyPod, formVars, mountVars, servicesToCreate, routesToCreate,
                  ingressesToCreate, previousPod, eventProperties, error,
                  deployStarted, deployFinished, deployError, deployWarning, createdRoutes,
                  snapshot, inFlight, updatePodInterval, destroyed, edits, reads >>

\* line 348: kubernetesCreateService answers
CreateServiceReturns ==
  /\ pc = "service"
  /\ Creatable(calls[Len(calls)])
  /\ Continue(AfterServices(idx))
  /\ UNCHANGED << bodyPod, formVars, mountVars, servicesToCreate, routesToCreate,
                  ingressesToCreate, previousPod, eventProperties, error,
                  outcomeVars, snapshot, inFlight, updatePodInterval, destroyed, edits, reads >>

\* lines 353-354: openshiftCreateRoute answers with the created route
CreateRouteReturns ==
  /\ pc = "route"
  /\ Creatable(calls[Len(calls)])
  /\ createdRoutes' = Append(createdRoutes, calls[Len(calls)].body)
  /\ Continue(AfterRoutes(idx))
  /\ UNCHANGED << bodyPod, formVars, mountVars, servicesToCreate, routesToCreate,
                  ingressesToCreate, previousPod, eventProperties, error,
                  deployStarted, deployFinished, deployError, deployWarning, createdPod,
                  snapshot, inFlight, updatePodInterval, destroyed, edits, reads >>

\* line 359: kubernetesCreateIngress answers
CreateIngressReturns ==
  /\ pc = "ingress"
  /\ Creatable(calls[Len(calls)])
  /\ Continue(AfterIngresses(idx))
  /\ UNCHANGED << bodyPod, formVars, mountVars, servicesToCreate, routesToCreate,
                  ingressesToCreate, previousPod, eventProperties, error,
                  outcomeVars, snapshot, inFlight, updatePodInterval, destroyed, edits, reads >>

\* error.message of a failed create call
ErrorMessage(kind) ==
  CASE kind = "Pod" -> "kubernetesCreatePod failed"
    [] kind = "Service" -> "kubernetesCreateService failed"
    [] kind = "Route" -> "openshiftCreateRoute failed"
    [] kind = "Ingress" -> "kubernetesCreateIngress failed"

\* CreateThrows with a rollback: the resources created before the failed call
\* are deleted again
CreateThrowsRollsBack ==
  /\ pc \in {"pod", "service", "route", "ingress"}
  /\ error' = ErrorMessage(calls[Len(calls)].kind)
  /\ bodyPod' = previousPod
  /\ calls' = [i \in 1..Len(calls) |->
                [calls[i] EXCEPT !.status = IF i < Len(calls) THEN "deleted" ELSE "failed"]]
  /\ telemetry' = Append(telemetry, [name |-> "deployToKube", properties |-> eventProperties,
                                     errorMessage |-> error'])
  /\ pc' = "catch"
  /\ UNCHANGED << formVars, mountVars, idx, servicesToCreate, routesToCreate,
                  ingressesToCreate, previousPod, eventProperties,
                  outcomeVars, snapshot, inFlight, updatePodInterval, destroyed, edits, reads >>

\* CreateThrows without line 374: the failure is not reported
CreateThrowsSilent ==
  /\ pc \in {"pod", "service", "route", "ingress"}
  /\ error' = ErrorMessage(calls[Len(calls)].kind)
  /\ bodyPod' = previousPod
  /\ calls' = Answered(calls, "failed")
  /\ pc' = "catch"
  /\ UNCHANGED << formVars, mountVars, idx, servicesToCreate, routesToCreate,
                  ingressesToCreate, previousPod, eventProperties, telemetry,
                  outcomeVars, snapshot, inFlight, updatePodInterval, destroyed, edits, reads >>

\* lines 370-374: a create call throws; the catch block runs to its await
CreateThrows ==
  /\ pc \in {"pod", "service", "route", "ingress"}
  /\ error' = ErrorMessage(calls[Len(calls)].kind)
  /\ bodyPod' = previousPod
  /\ calls' = Answered(calls, "failed")
  /\ telemetry' = Append(telemetry, [name |-> "deployToKube", properties |-> eventProperties,
                                     errorMessage |-> error'])
  /\ pc' = "catch"
  /\ UNCHANGED << formVars, mountVars, idx, servicesToCreate, routesToCreate,
                  ingressesToCreate, previousPod, eventProperties,
                  outcomeVars, snapshot, inFlight, updatePodInterval, destroyed, edits, reads >>

\* CatchReturns without line 376: deployStarted is left as it is
CatchReturnsKeepsStarted ==
  /\ pc = "catch"
  /\ deployError' = error
  /\ deployFinished' = FALSE
  /\ pc' = "idle"
  /\ inFlight' = inFlight - 1
  /\ UNCHANGED << bodyPod, formVars, mountVars, idx, servicesToCreate, routesToCreate,
                  ingressesToCreate, previousPod, eventProperties, error,
                  deployStarted, deployWarning, createdPod, createdRoutes,
                  calls, telemetry, snapshot, updatePodInterval, destroyed, edits, reads >>

\* lines 374-378: the telemetry call of the catch block answers
CatchReturns ==
  /\ pc = "catch"
  /\ deployError' = error
  /\ deployStarted' = FALSE
  /\ deployFinished' = FALSE
  /\ pc' = "idle"
  /\ inFlight' = inFlight - 1
  /\ UNCHANGED << bodyPod, formVars, mountVars, idx, servicesToCreate, routesToCreate,
                  ingressesToCreate, previousPod, eventProperties, error,
                  deployWarning, createdPod, createdRoutes,
                  calls, telemetry, snapshot, updatePodInterval, destroyed, edits, reads >>

\* setInterval(..., 2000) (line 366)
SetInterval(handle) == "active"

\* lines 363-368: the telemetry call of the try block answers, the poller starts
TelemetryReturns ==
  /\ pc = "telemetry"
  /\ updatePodInterval' = SetInterval(updatePodInterval)
  /\ pc' = "idle"
  /\ inFlight' = inFlight - 1
  /\ UNCHANGED << bodyPod, formVars, mountVars, idx, servicesToCreate, routesToCreate,
                  ingressesToCreate, previousPod, eventProperties, error,
                  outcomeVars, calls, telemetry, snapshot, destroyed, edits, reads >>

(***************************************************************************)
(* The status poller (lines 117-132, 366-368).                             *)
(***************************************************************************)
PodPhases == {"Pending", "Running"}

\* the guard of line 118
HasNameAndNamespace(pod) ==
  pod # NoPod /\ TruthyStr(pod.name) /\ TruthyStr(pod.namespace)

\* the interval fires: updatePod runs to its await (lines 118-121)
PollTick ==
  /\ updatePodInterval = "active"
  /\ HasNameAndNamespace(createdPod)
  /\ Len(reads) < MaxInFlight
  /\ reads' = Append(reads, [name |-> createdPod.name, namespace |-> createdPod.namespace])
  /\ UNCHANGED << bodyPod, formVars, mountVars, localVars, outcomeVars, observed,
                  updatePodInterval, destroyed, edits >>

RemoveAt(seq, i) == [j \in 1..(Len(seq) - 1) |-> IF j < i THEN seq[j] ELSE seq[j + 1]]

\* Terminal with another phase than the one line 124 tests
TerminalSucceeded(phase) == phase = "Succeeded"

\* whether updatePod stops the poller on the pod it read (line 124)
Terminal(phase) == phase = "Running"

\* lines 121-131: kubernetesReadNamespacedPod answers
ReadReturns(i, phase) ==
  /\ i \in 1..Len(reads)
  /\ reads' = RemoveAt(reads, i)
  /\ createdPod' = [name |-> reads[i].name, namespace |-> reads[i].namespace,
                    phase |-> phase]
  /\ IF Terminal(phase)
     THEN /\ updatePodInterval' = ClearInterval(updatePodInterval)
          /\ deployFinished' = TRUE
          /\ telemetry' = Append(telemetry,
               [name |-> "deployToKube.running",
                properties |-> [useServices |-> deployUsingServices,
                                useRoutes |-> deployUsingRoutes]])
     ELSE UNCHANGED << updatePodInterval, deployFinished, telemetry >>
  /\ UNCHANGED << bodyPod, formVars, mountVars, localVars,
                  deployStarted, deployError, deployWarning, createdRoutes,
                  calls, snapshot, inFlight, destroyed, edits >>

\* line 121 throws: the catch of line 367 logs the error
ReadThrows(i) ==
  /\ i \in 1..Len(reads)
  /\ reads' = RemoveAt(reads, i)
  /\ UNCHANGED << bodyPod, formVars, mountVars, localVars, outcomeVars, observed,
                  updatePodInterval, destroyed, edits >>

(***************************************************************************)
(* The component from its construction on.                                 *)
(***************************************************************************)
Next ==
  \/ MountGenerate
  \/ MountNamespace
  \/ MountListNamespaces
  \/ MountApiGroup
  \/ MountApiGroupThrows
  \/ MountConfigMap
  \/ \E n \in PodNames : SetPodName(n)
  \/ ToggleUseServices
  \/ ToggleRestricted
  \/ ToggleCreateIngress
  \/ \E i \in DOMAIN containerPortArray : SelectIngressPort(i)
  \/ ToggleUseRoutes
  \/ \E n \in Namespaces : SelectNamespace(n)
  \/ OnDestroy
  \/ DeployToKube
  \/ CreatePodReturns
  \/ CreateServiceReturns
  \/ CreateRouteReturns
  \/ CreateIngressReturns
  \/ CreateThrows
  \/ CatchReturns
  \/ TelemetryReturns
  \/ PollTick
  \/ \E i \in 1..MaxInFlight, phase \in PodPhases : ReadReturns(i, phase)
  \/ \E i \in 1..MaxInFlight : ReadThrows(i)

Spec == Init /\ [][Next]_vars

(***************************************************************************)
(* The planner on its own: deployToKube is clicked once on a mounted form  *)
(* whose manifest and options are drawn from bounded sets.                 *)
(***************************************************************************)
\* the ports the ingress port variable is drawn from
IngressPortChoices == {NoHostPort, 8080, 9090}

PlanInit ==
  /\ bodyPod \in PlanManifests
  /\ currentNamespace \in Namespaces
  /\ allNamespaces = TRUE
  /\ deployStarted = FALSE
  /\ deployFinished = FALSE
  /\ deployError = ""
  /\ deployWarning = ""
  /\ updatePodInterval = "unset"
  /\ openshiftRouteGroupSupported \in BOOLEAN
  /\ deployUsingServices \in BOOLEAN
  /\ deployUsingRoutes \in BOOLEAN
  /\ deployUsingRestrictedSecurityContext = FALSE
  /\ createdPod = NoPod
  /\ createIngress \in BOOLEAN
  /\ ingressPort \in IngressPortChoices
  /\ containerPortArray = HostPorts(bodyPod.containers)
  /\ createdRoutes = <<>>
  /\ mountPc = "done"
  /\ destroyed = FALSE
  /\ pc = "idle"
  /\ idx = 0
  /\ servicesToCreate = <<>>
  /\ routesToCreate = <<>>
  /\ ingressesToCreate = <<>>
  /\ previousPod = NoPod
  /\ eventProperties = NoProperties
  /\ error = ""
  /\ reads = <<>>
  /\ calls = <<>>
  /\ telemetry = <<>>
  /\ snapshot = NoPod
  /\ inFlight = 0
  /\ edits = 0

PlanNext == DeployToKube

PlanSpec == PlanInit /\ [][PlanNext]_vars

(***************************************************************************)
(* Properties.                                                             *)
(***************************************************************************)
\* the ports of all containers, in container order and then port order
RECURSIVE AllPorts(_)
AllPorts(containers) ==
  IF containers = <<>> THEN <<>>
  ELSE Head(containers).ports \o AllPorts(Tail(containers))

HasHostPort(port) == port.hostPort # NoHostPort

\* the fields sanitization deletes: spec.volumes, and per container its
\* volumeMounts and the hostPort of each of its ports
Deletable(pod) ==
  [volumes |-> pod.volumes,
   containers |-> [i \in 1..Len(pod.containers) |->
                     [volumeMounts |-> pod.containers[i].volumeMounts,
                      hostPorts |-> [j \in 1..Len(pod.containers[i].ports) |->
                                       pod.containers[i].ports[j].hostPort]]]]

LastCall == calls[Len(calls)]
CallsOf(kind) == SelectSeq(calls, LAMBDA c : c.kind = kind)
CallFailed == calls # <<>> /\ LastCall.status = "failed"

\* C1: when the Pod creation call of an attempt has failed, the manifest of
\* the form has again the volumes, volumeMounts and hostPorts it had right
\* before that attempt sanitized it
C1_PodFailureRestoresManifest ==
  (CallFailed /\ LastCall.kind = "Pod") => Deletable(bodyPod) = Deletable(snapshot)

KindRank(kind) ==
  CASE kind = "Pod" -> 1 [] kind = "Service" -> 2 [] kind = "Route" -> 3 [] kind = "Ingress" -> 4

\* C2: the create calls of an attempt are issued one at a time, each after
\* the one before it was answered, in the order Pod, Services, Routes,
\* Ingress; a Route call is issued only after every planned Service was
\* created, the Ingress call only after every planned Route was created
C2_CreateCallsStrictlyOrdered ==
  /\ \A i \in 1..(Len(calls) - 1) : calls[i].status = "ok"
  /\ \A i \in 1..Len(calls) : (calls[i].kind = "Pod") <=> (i = 1)
  /\ \A i, j \in 1..Len(calls) : i < j => KindRank(calls[i].kind) <= KindRank(calls[j].kind)
  /\ CallsOf("Route") # <<>> =>
       [i \in 1..Len(CallsOf("Service")) |-> CallsOf("Service")[i].body] = servicesToCreate
  /\ CallsOf("Ingress") # <<>> =>
       /\ [i \in 1..Len(CallsOf("Service")) |-> CallsOf("Service")[i].body] = servicesToCreate
       /\ [i \in 1..Len(CallsOf("Route")) |-> CallsOf("Route")[i].body] = routesToCreate
  /\ pc = "telemetry" =>
       /\ Len(CallsOf("Service")) = Len(servicesToCreate)
       /\ Len(CallsOf("Route")) = Len(routesToCreate)
       /\ Len(CallsOf("Ingress")) = Len(ingressesToCreate)

\* two Services were created and the second Route call is outstanding
C2_Witness ==
  /\ pc = "route"
  /\ Len(servicesToCreate) = 2
  /\ Len(CallsOf("Route")) = 2
  /\ LastCall.status = "pending"

\* C3: at most one deployToKube invocation is suspended at an await at any
\* time, and while one is, deployStarted is true, so that the Deploy button
\* is not rendered
C3_OneAttemptInFlight ==
  /\ inFlight <= 1
  /\ (pc # "idle") <=> (inFlight = 1)
  /\ pc # "idle" => (deployStarted /\ ~DeployAvailable)

\* an attempt is awaiting the answer to a Service creation
C3_Witness == inFlight = 1 /\ pc = "service" /\ ~destroyed

\* C4: once a create call of an attempt has failed, no further create call
\* is issued and no poller is started, and when the attempt has ended,
\* deployError is the failure, deployStarted and deployFinished are false
\* and the Deploy button is available again
C4_FailureEndsAttempt ==
  CallFailed =>
    /\ pc \in {"catch", "idle"}
    /\ \A i \in 1..(Len(calls) - 1) : calls[i].status = "ok"
    /\ updatePodInterval # "active"
    /\ \E i \in 1..Len(telemetry) : telemetry[i].errorMessage = ErrorMessage(LastCall.kind)
    /\ pc = "idle" =>
         /\ deployError = ErrorMessage(LastCall.kind)
         /\ ~deployStarted
         /\ ~deployFinished
         /\ bodyPod.name # "" => DeployAvailable

\* an attempt has ended on the failure of its second Service creation
C4_Witness ==
  /\ CallFailed
  /\ pc = "idle"
  /\ LastCall.kind = "Service"
  /\ Len(CallsOf("Service")) = 2
  /\ deployError = ErrorMessage("Service")

\* the number of services an attempt started now would plan
ServiceCount ==
  IF deployUsingServices
  THEN Len(SelectSeq(AllPorts(bodyPod.containers), HasHostPort))
  ELSE 0

\* an attempt started now asks for an ingress that has no target
IngressUnresolved ==
  /\ bodyPod # NoPod
  /\ TruthyStr(bodyPod.name)
  /\ createIngress
  /\ \/ ServiceCount = 0
     \/ ServiceCount > 1 /\ ingressPort = NoHostPort

\* C5: an attempt that asks for an ingress while no service is planned, or
\* while several are and no ingress port is selected, ends at once with a
\* warning: no create call is issued, the manifest is left as it was, and
\* deployStarted is false, so that the Deploy button is available again
C5_WarningAbortsAttempt ==
  [][ (DeployToKube /\ IngressUnresolved) =>
        /\ deployWarning' # ""
        /\ deployError' = ""
        /\ calls' = <<>>
        /\ telemetry' = <<>>
        /\ bodyPod' = bodyPod
        /\ pc' = pc
        /\ ~deployStarted'
        /\ DeployAvailable' ]_vars

\* an attempt ended with the warning that asks for an ingress port
C5_Witness ==
  /\ deployWarning = WarnNoPort
  /\ Len(servicesToCreate) > 1
  /\ calls = <<>>
  /\ ~deployStarted
  /\ Deletable(bodyPod) = Deletable(snapshot)

\* C6: after onDestroy no status poller is active
C6_NoPollerAfterDestroy == destroyed => updatePodInterval # "active"

\* C7: once the poller has been cancelled, no status read is started, and a
\* status read that ends changes neither createdPod nor deployFinished and
\* emits no event
C7_NoPollEffectAfterCancel ==
  [][ (updatePodInterval = "cleared" /\ reads' # reads) =>
        /\ Len(reads') < Len(reads)
        /\ createdPod' = createdPod
        /\ deployFinished' = deployFinished
        /\ telemetry' = telemetry ]_vars

\* an attempt has ended with every create call answered and the poller started
Submitted ==
  /\ pc = "idle"
  /\ calls # <<>>
  /\ \A i \in 1..Len(calls) : calls[i].status = "ok"

RunningEvents == SelectSeq(telemetry, LAMBDA e : e.name = "deployToKube.running")

\* C8: a status read that returns a Running pod cancels the poller, sets
\* deployFinished and emits one 'deployToKube.running' event; a read that
\* returns another phase leaves the poller, deployFinished and the events
\* as they are; and while the component lives, the poller of a submitted
\* attempt is active exactly as long as deployFinished is false, which it
\* is as long as no 'deployToKube.running' event was emitted
C8_PollerStopsOnRunning ==
  /\ [][ \A i \in 1..MaxInFlight :
           /\ ReadReturns(i, "Running") =>
                /\ updatePodInterval' # "active"
                /\ deployFinished'
                /\ createdPod'.phase = "Running"
                /\ Len(telemetry') = Len(telemetry) + 1
                /\ telemetry'[Len(telemetry')].name = "deployToKube.running"
           /\ ReadReturns(i, "Pending") =>
                /\ updatePodInterval' = updatePodInterval
                /\ deployFinished' = deployFinished
                /\ telemetry' = telemetry ]_vars
  /\ []( (Submitted /\ ~destroyed) =>
           /\ deployFinished <=> (updatePodInterval = "cleared")
           /\ ~deployFinished <=> (updatePodInterval = "active")
           /\ deployFinished <=> (RunningEvents # <<>>) )

\* a read returned a Running pod: the poller is cancelled, the form is done
C8_Witness ==
  /\ Submitted
  /\ ~destroyed
  /\ deployFinished
  /\ updatePodInterval = "cleared"
  /\ createdPod.phase = "Running"
  /\ Len(RunningEvents) = 1

\* the ports of the manifest an attempt planned from that have a hostPort
PlannedPorts == SelectSeq(AllPorts(snapshot.containers), HasHostPort)

\* an attempt has run the planning loop
Planned == snapshot # NoPod /\ TruthyStr(snapshot.name)

\* C9: with useServices the planned services are, in container and port
\* order, one per port that has a hostPort, named "{podName}-{hostPort}",
\* with port = hostPort, targetPort = containerPort, the port's protocol or
\* TCP, and selector app = podName; without useServices no service and no
\* route is planned
C9_OneServicePerHostPort ==
  Planned =>
    IF deployUsingServices
    THEN /\ Len(servicesToCreate) = Len(PlannedPorts)
         /\ \A i \in 1..Len(servicesToCreate) :
              LET service == servicesToCreate[i]
                  port == PlannedPorts[i]
              IN /\ service.name = <<snapshot.name, "-", port.hostPort>>
                 /\ service.portName = service.name
                 /\ service.port = port.hostPort
                 /\ service.targetPort = port.containerPort
                 /\ service.protocol = (IF port.protocol \in {"TCP", "UDP"}
                                        THEN port.protocol ELSE "TCP")
                 /\ service.selectorApp = snapshot.name
                 /\ service.namespace = currentNamespace
    ELSE servicesToCreate = <<>> /\ routesToCreate = <<>>

\* two services were planned, the first from a port without protocol
C9_Witness ==
  /\ Planned
  /\ deployUsingServices
  /\ Len(servicesToCreate) = 2
  /\ servicesToCreate[1].protocol = "TCP"
  /\ servicesToCreate[2].protocol = "UDP"

\* the indexes of the planned services whose port is the selected ingress port
Matching == { i \in 1..Len(servicesToCreate) : servicesToCreate[i].port = ingressPort }

Min(S) == CHOOSE m \in S : \A n \in S : m <= n

\* the one ingress that targets planned service i
TargetsService(i) ==
  /\ Len(ingressesToCreate) = 1
  /\ ingressesToCreate[1].serviceName = servicesToCreate[i].name
  /\ ingressesToCreate[1].servicePort = servicesToCreate[i].port
  /\ ingressesToCreate[1].name = snapshot.name
  /\ deployError = ""
  /\ deployWarning = ""
  /\ pc = "pod"

\* C10: when an ingress is asked for, one planned service is its target
\* without more ado; of several planned services the target is the first
\* whose port is the selected ingress port; and when several are planned
\* and none has the selected port, the attempt ends with the error 'Unable
\* to find the service ...', no ingress planned and no create call issued
C10_IngressTarget ==
  (Planned /\ createIngress) =>
    /\ Len(servicesToCreate) = 1 => TargetsService(1)
    /\ (Len(servicesToCreate) > 1 /\ Matching # {}) => TargetsService(Min(Matching))
    /\ (Len(servicesToCreate) > 1 /\ ingressPort # NoHostPort /\ Matching = {}) =>
         /\ deployError = ErrNoMatch
         /\ ingressesToCreate = <<>>
         /\ calls = <<>>
         /\ createdPod = NoPod
         /\ pc = "idle"

\* several services were planned and none of them has the selected port
C10_Witness ==
  /\ Planned
  /\ createIngress
  /\ Len(servicesToCreate) = 2
  /\ ingressPort = 9090
  /\ Matching = {}
  /\ deployError = ErrNoMatch

IngressDetectedOpenshift ==
  CallsOf("Ingress") # <<>> /\ eventProperties.isOpenshift

\* C11: an attempt issues at most one Ingress creation call, none when
\* OpenShift route support was detected, and never a Route creation call as
\* well as an Ingress creation call
C11_NoIngressOnOpenshift ==
  /\ Len(CallsOf("Ingress")) <= 1
  /\ ~IngressDetectedOpenshift
  /\ ~(CallsOf("Route") # <<>> /\ CallsOf("Ingress") # <<>>)

\* the bodies of the create calls of the latest attempt, in call order
CallBodies == [i \in 1..Len(calls) |-> calls[i].body]

\* the bodies of the create calls an attempt makes when none fails
PlannedBodies ==
  << calls[1].body >> \o servicesToCreate \o routesToCreate \o ingressesToCreate

\* C12: when a create call after the Pod creation has failed, the calls of
\* the attempt are the planned calls up to the failed one and no call is
\* added to them; every call before the failed one was answered with the
\* created resource and none of them is undone, and the created Pod stays
\* on display
C12_FailureKeepsCreated ==
  /\ []( (CallFailed /\ LastCall.kind # "Pod") =>
           /\ CallBodies = SubSeq(PlannedBodies, 1, Len(calls))
           /\ \A i \in 1..Len(calls) : calls[i].kind \in {"Pod", "Service", "Route", "Ingress"}
           /\ \A i \in 1..(Len(calls) - 1) : calls[i].status = "ok"
           /\ createdPod # NoPod
           /\ createdPod.name = calls[1].body.name
           /\ createdPod.namespace = calls[1].namespace )
  /\ [][ (CallFailed /\ ~DeployToKube) => calls' = calls ]_vars

\* the second Route creation failed after the Pod, two Services and one
\* Route were created
C12_Witness ==
  /\ CallFailed
  /\ pc = "idle"
  /\ LastCall.kind = "Route"
  /\ Len(calls) = 5
  /\ Len(createdRoutes) = 1
  /\ createdPod # NoPod

DeployEvents == SelectSeq(telemetry, LAMBDA e : e.name = "deployToKube")

MadeAllCalls == Len(calls) = Len(PlannedBodies)

\* C13: an attempt emits no 'deployToKube' event while a create call is
\* outstanding; once all its planned create calls succeeded it has emitted
\* one, without errorMessage; once a create call failed it has emitted one,
\* with the failure as errorMessage; the event carries the option flags the
\* attempt started with; an attempt that issues no create call emits none
C13_OneDeployEvent ==
  /\ []( /\ Len(DeployEvents) <= 1
         /\ calls = <<>> => DeployEvents = <<>>
         /\ (calls # <<>> /\ LastCall.status = "pending") => DeployEvents = <<>>
         /\ (calls # <<>> /\ LastCall.status = "ok") =>
              /\ pc \in {"telemetry", "idle"}
              /\ MadeAllCalls
              /\ \A i \in 1..Len(calls) : calls[i].status = "ok"
              /\ Len(DeployEvents) = 1
              /\ DeployEvents[1].errorMessage = Undefined
              /\ DeployEvents[1].properties = eventProperties
         /\ CallFailed =>
              /\ Len(DeployEvents) = 1
              /\ DeployEvents[1].errorMessage = ErrorMessage(LastCall.kind)
              /\ DeployEvents[1].properties = eventProperties )
  /\ [][ (DeployToKube /\ calls' # <<>>) =>
           /\ eventProperties'.useServices = deployUsingServices
           /\ eventProperties'.useRoutes = deployUsingRoutes
           /\ eventProperties'.createIngress = createIngress ]_vars

\* an attempt with three create calls has succeeded and emitted its event
C13_Witness ==
  /\ Submitted
  /\ Len(calls) = 3
  /\ Len(DeployEvents) = 1
  /\ DeployEvents[1].errorMessage = Undefined
  /\ DeployEvents[1].properties.useServices

\* C14: the Pod manifest handed to the Pod creation call has no volumes;
\* when the attempt uses services it has no volumeMounts and no hostPort
\* either, while the services planned in the same attempt carry, in order,
\* the hostPorts the manifest had before sanitization; the planner run on the
\* submitted manifest yields no service and no route
C14_SanitizedAfterPlanning ==
  calls # <<>> =>
    LET body == calls[1].body IN
    /\ ~body.volumes
    /\ eventProperties.useServices =>
         /\ \A c \in 1..Len(body.containers) :
              /\ ~body.containers[c].volumeMounts
              /\ \A q \in 1..Len(body.containers[c].ports) :
                   body.containers[c].ports[q].hostPort = NoHostPort
         /\ Len(servicesToCreate) = Len(PlannedPorts)
         /\ \A i \in 1..Len(servicesToCreate) :
              /\ TruthyPort(servicesToCreate[i].port)
              /\ servicesToCreate[i].port = PlannedPorts[i].hostPort
         /\ PlanServices(body, calls[1].namespace, TRUE, eventProperties.isOpenshift,
                         eventProperties.useRoutes) = << <<>>, <<>> >>

\* a manifest with volumes, volumeMounts and two hostPorts was submitted
\* sanitized, with its two services planned
C14_Witness ==
  /\ calls # <<>>
  /\ eventProperties.useServices
  /\ snapshot.volumes
  /\ snapshot.containers[1].volumeMounts
  /\ Len(PlannedPorts) = 2
  /\ Len(servicesToCreate) = 2
  /\ ~calls[1].body.volumes

\* C15: a manifest with metadata.labels has labels.app equal to
\* metadata.name, whatever name the user set, the empty string included; the
\* app selector of every service planned in an attempt equals the app label
\* of the Pod manifest submitted in that attempt
C15_AppLabelFollowsName ==
  /\ (bodyPod # NoPod /\ bodyPod.labels) => bodyPod.app = bodyPod.name
  /\ (calls # <<>> /\ calls[1].body.labels) =>
       \A i \in 1..Len(servicesToCreate) :
         servicesToCreate[i].selectorApp = calls[1].body.app

\* the user renamed a Pod generated with another app label, and an attempt
\* planned a service for it
C15_Witness ==
  /\ calls # <<>>
  /\ calls[1].body.labels
  /\ calls[1].body.name = "api"
  /\ calls[1].body.app = "api"
  /\ Len(servicesToCreate) = 2
  /\ servicesToCreate[2].selectorApp = "api"

\* the bodies of the Route creation calls answered with the created route
RoutesCreated ==
  LET done == SelectSeq(calls, LAMBDA c : c.kind = "Route" /\ c.status = "ok")
  IN [i \in 1..Len(done) |-> done[i].body]

\* C16: an attempt that detected OpenShift route support and has routes
\* enabled plans one route per planned service, in the same order, referring
\* to the service by name and targeting its container port; any other
\* attempt plans no route and makes no Route creation call; createdRoutes is
\* the routes created in the attempt, in creation order, and after a
\* successful attempt all the planned ones; a successful attempt for one
\* host port without OpenShift and without Ingress made one Pod and one
\* Service creation call
C16_RoutesFollowServices ==
  /\ calls # <<>> =>
       IF eventProperties.isOpenshift /\ eventProperties.useRoutes
       THEN /\ Len(routesToCreate) = Len(servicesToCreate)
            /\ \A i \in 1..Len(routesToCreate) :
                 /\ routesToCreate[i].toKind = "Service"
                 /\ routesToCreate[i].toName = servicesToCreate[i].name
                 /\ routesToCreate[i].namespace = servicesToCreate[i].namespace
                 /\ routesToCreate[i].targetPort = servicesToCreate[i].targetPort
       ELSE /\ routesToCreate = <<>>
            /\ CallsOf("Route") = <<>>
  /\ calls = <<>> => createdRoutes = <<>>
  /\ calls # <<>> => createdRoutes = RoutesCreated
  /\ Submitted => createdRoutes = routesToCreate
  /\ ( /\ Submitted
       /\ eventProperties.useServices
       /\ ~eventProperties.isOpenshift
       /\ ~eventProperties.createIngress
       /\ Len(PlannedPorts) = 1 ) =>
       [i \in 1..Len(calls) |-> calls[i].kind] = << "Pod", "Service" >>

\* a successful attempt on OpenShift has created the two routes of its two
\* services
C16_Witness ==
  /\ Submitted
  /\ eventProperties.isOpenshift
  /\ Len(servicesToCreate) = 2
  /\ Len(createdRoutes) = 2
  /\ createdRoutes[2].toName = servicesToCreate[2].name

\* C17: an invocation of deployToKube leaves deployFinished false,
\* createdPod undefined, createdRoutes empty and no poller active, and
\* deployError and deployWarning empty unless its own planning sets one of
\* them; the Pod on display is the Pod the latest attempt created, the
\* error on display is the failure of the latest attempt, and a poller is
\* started only when none is active
C17_AttemptStartsClean ==
  /\ [][ DeployToKube =>
           /\ ~deployFinished'
           /\ createdPod' = NoPod
           /\ createdRoutes' = <<>>
           /\ updatePodInterval' # "active"
           /\ calls' # <<>> => (deployError' = "" /\ deployWarning' = "")
           /\ deployError' = "" \/ deployWarning' = ""
           /\ deployWarning' # "" => IngressUnresolved ]_vars
  /\ [][ TelemetryReturns => updatePodInterval # "active" ]_vars
  /\ []( createdPod # NoPod =>
           /\ calls # <<>>
           /\ calls[1].status = "ok"
           /\ createdPod.name = calls[1].body.name
           /\ createdPod.namespace = calls[1].namespace )
  /\ []( deployError # "" =>
           /\ CallFailed
           /\ deployError = ErrorMessage(LastCall.kind) )

\* an attempt is under way on a manifest that an earlier attempt, which
\* failed, left without its volumes: nothing of that attempt is on display
C17_Witness ==
  /\ pc = "pod"
  /\ snapshot.labels
  /\ ~snapshot.volumes
  /\ createdPod = NoPod
  /\ createdRoutes = <<>>
  /\ deployError = ""
  /\ ~deployFinished

\* C18: when an attempt with useServices failed at the Pod creation and
\* the user, who changed no option and no field, clicks Deploy again under
\* the same detection result and namespace, the new attempt plans the same
\* services, routes and ingress as the failed one
C18_RetryPlansTheSame ==
  [][ ( /\ DeployToKube
        /\ CallFailed
        /\ LastCall.kind = "Pod"
        /\ edits = 0
        /\ eventProperties.useServices
        /\ eventProperties.isOpenshift = openshiftRouteGroupSupported
        /\ calls[1].namespace = currentNamespace ) =>
        /\ servicesToCreate' = servicesToCreate
        /\ routesToCreate' = routesToCreate
        /\ ingressesToCreate' = ingressesToCreate ]_vars

\* C19: while the page shows the form in progress (deployStarted and not
\* deployFinished), the invocation of deployToKube is still running or a
\* poller is active
C19_NeverStuckInProgress ==
  (deployStarted /\ ~deployFinished /\ ~destroyed) =>
    (pc # "idle" \/ updatePodInterval = "active")

\* C20: an attempt emits at most one 'deployToKube.running' event
C20_OneRunningEvent == Len(RunningEvents) <= 1

\* C21: while deployFinished is true, createdPod is defined with phase
\* Running and no poller is active
C21_FinishedMeansRunning ==
  deployFinished =>
    /\ createdPod # NoPod
    /\ createdPod.phase = "Running"
    /\ updatePodInterval # "active"

\* C22: every create call of an attempt has the namespace argument of the
\* attempt's Pod creation call, and that argument is the metadata.namespace
\* of the Service, Route or Ingress it creates
C22_OneNamespacePerAttempt ==
  \A i \in 1..Len(calls) :
    /\ calls[i].namespace = calls[1].namespace
    /\ i > 1 => calls[i].body.namespace = calls[i].namespace

====
